---- MODULE Spec2Model ----
(***************************************************************************)
(* Model of the self-evolving code fixer: the patch gate (agent/patcher.py),*)
(* the memory/reflection engine (agent/reflect.py) and the iteration       *)
(* controller (agent/graph.py wired by agent/cli.py).                      *)
(*                                                                         *)
(* Text is a sequence of one-character strings; "CR" and "LF" stand for    *)
(* the carriage-return and line-feed characters.  A dictionary entry that  *)
(* may be absent is a sequence of length at most one (<<>> = absent).      *)
(* The file system has no symbolic links.                                  *)
(***************************************************************************)
EXTENDS Integers, Sequences, FiniteSets, TLC

VARIABLES
    files,          \* disk: location (sequence of names from /) -> stored text
    dirs,           \* disk: set of locations that are directories
    edits_json,     \* disk: payload of <workspace>/.selfevolve/edits.json, if written
    mem_file,       \* disk: <workspace>/agent/memory.json
    node,           \* the graph node to run next, "END", "crashed" or "exited"
    iter,           \* S["iter"]
    max_iters,      \* S["max_iters"]
    memory,         \* S["memory"]
    file_summaries, \* S["file_summaries"]
    patches,        \* S["patches"]
    tests_passed,   \* S["tests_passed"]
    test_passed,    \* the key "test_passed" that _route_after_tests reads
    test_log,       \* S["test_log"]
    error_flag,     \* S["error_flag"]
    message,        \* S["message"]
    exit_code,      \* the status the process exits with
    last_node,      \* history: the node that ran last
    hist,           \* history: how often each node ran, how many runs passed, how often
                    \* memory.json was loaded and saved, the memory plan_fix last got,
                    \* and the files and the result of the last test run
    gate_phase,     \* patch-gate harness: "idle" | "ready" | "done"
    gate_batch,     \* patch-gate harness: the batch handed to apply_edits
    gate_files0,    \* patch-gate harness: file contents before the call
    gate_dirs0,     \* patch-gate harness: directories before the call
    gate_raised,    \* patch-gate harness: did apply_edits raise
    gate_err,       \* patch-gate harness: which check raised
    refl_phase,     \* reflection harness: "idle" | "ready" | "once" | "twice"
    refl_before,    \* reflection harness: the record handed to the first reflect_update
    refl_once       \* reflection harness: the record the first reflect_update returned

gate_vars == <<gate_phase, gate_batch, gate_files0, gate_dirs0, gate_raised, gate_err>>

disk_vars == <<files, dirs, edits_json, mem_file>>

state_vars == <<iter, max_iters, memory, file_summaries, patches, tests_passed, test_passed, test_log, error_flag, message>>

ctl_vars == <<node, exit_code, last_node, hist>>

refl_vars == <<refl_phase, refl_before, refl_once>>

vars == <<disk_vars, state_vars, ctl_vars, gate_vars, refl_vars>>

\* an entry of a dict that may be absent
None == <<>>

Some(v) == <<v>>

\* dict.get(key, default)
Get(entry, default) == IF entry = <<>> THEN default ELSE entry[1]

---------------------------------------------------------------------------
\* Text helpers

CR == "CR"

LF == "LF"

StartsWith(s, p) == Len(p) <= Len(s) /\ SubSeq(s, 1, Len(p)) = p

Front(s) == SubSeq(s, 1, Len(s) - 1)

RECURSIVE replace_crlf(_)
replace_crlf(s) ==
    IF s = <<>> THEN <<>>
    ELSE IF Len(s) >= 2 /\ s[1] = CR /\ s[2] = LF
         THEN <<LF>> \o replace_crlf(SubSeq(s, 3, Len(s)))
         ELSE <<s[1]>> \o replace_crlf(Tail(s))

RECURSIVE replace_cr(_)
replace_cr(s) ==
    IF s = <<>> THEN <<>>
    ELSE <<IF s[1] = CR THEN LF ELSE s[1]>> \o replace_cr(Tail(s))

\* p["new_text"].replace("\r\n", "\n").replace("\r", "\n")
normalize_newlines(t) == replace_cr(replace_crlf(t))

\* Path.read_text: text mode with universal newlines translates \r\n and \r
read_text(stored) == replace_cr(replace_crlf(stored))

FirstBreak(s) ==
    IF \E k \in 1..Len(s) : s[k] \in {CR, LF}
    THEN CHOOSE k \in 1..Len(s) : s[k] \in {CR, LF} /\ \A m \in 1..(k - 1) : s[m] \notin {CR, LF}
    ELSE 0

\* str.splitlines(keepends=False)
RECURSIVE splitlines(_)
splitlines(s) ==
    IF s = <<>> THEN <<>>
    ELSE LET k == FirstBreak(s) IN
         IF k = 0 THEN <<s>>
         ELSE LET skip == IF s[k] = CR /\ k < Len(s) /\ s[k + 1] = LF THEN k + 1 ELSE k
              IN  <<SubSeq(s, 1, k - 1)>> \o splitlines(SubSeq(s, skip + 1, Len(s)))

---------------------------------------------------------------------------
\* difflib.SequenceMatcher as used by difflib.unified_diff (no junk; the
\* autojunk heuristic only applies to sequences of 200 lines or more)

MatchCands(a, b, alo, ahi, blo, bhi) ==
    {c \in (alo..ahi) \X (blo..bhi) \X (1..(ahi - alo + 1)) :
        /\ c[1] + c[3] - 1 <= ahi
        /\ c[2] + c[3] - 1 <= bhi
        /\ \A d \in 0..(c[3] - 1) : a[c[1] + d] = b[c[2] + d]}

\* longest block; of those the earliest in a; of those the earliest in b
find_longest_match(a, b, alo, ahi, blo, bhi) ==
    LET C == MatchCands(a, b, alo, ahi, blo, bhi) IN
    IF C = {} THEN <<alo, blo, 0>>
    ELSE CHOOSE c \in C : \A o \in C :
            \/ c[3] > o[3]
            \/ c[3] = o[3] /\ c[1] < o[1]
            \/ c[3] = o[3] /\ c[1] = o[1] /\ c[2] <= o[2]

\* get_matching_blocks, as the set of matched index pairs <<i, j>>
RECURSIVE matching_pairs(_, _, _, _, _, _)
matching_pairs(a, b, alo, ahi, blo, bhi) ==
    IF alo > ahi \/ blo > bhi THEN {}
    ELSE LET m == find_longest_match(a, b, alo, ahi, blo, bhi) IN
         IF m[3] = 0 THEN {}
         ELSE {<<m[1] + d, m[2] + d>> : d \in 0..(m[3] - 1)}
              \cup matching_pairs(a, b, alo, m[1] - 1, blo, m[2] - 1)
              \cup matching_pairs(a, b, m[1] + m[3], ahi, m[2] + m[3], bhi)

\* the '-' lines of the unified diff: lines of a in no matching block
RemovedLines(a, b) ==
    LET M == matching_pairs(a, b, 1, Len(a), 1, Len(b))
    IN  {i \in 1..Len(a) : \A j \in 1..Len(b) : <<i, j>> \notin M}

\* the '+' lines of the unified diff: lines of b in no matching block
AddedLines(a, b) ==
    LET M == matching_pairs(a, b, 1, Len(a), 1, Len(b))
    IN  {j \in 1..Len(b) : \A i \in 1..Len(a) : <<i, j>> \notin M}

count_changed_lines_nofilter(old_text, new_text) ==
    LET a == splitlines(old_text)
        b == splitlines(new_text)
    IN  Cardinality(AddedLines(a, b)) + Cardinality(RemovedLines(a, b))

\* _count_changed_lines: a diff line counts when it starts with "+" but not
\* "+++", or with "-" but not "---"
count_changed_lines(old_text, new_text) ==
    LET a == splitlines(old_text)
        b == splitlines(new_text)
        added == {j \in AddedLines(a, b) : ~StartsWith(<<"+">> \o b[j], <<"+", "+", "+">>)}
        removed == {i \in RemovedLines(a, b) : ~StartsWith(<<"-">> \o a[i], <<"-", "-", "-">>)}
    IN  Cardinality(added) + Cardinality(removed)

---------------------------------------------------------------------------
\* Paths.  A path string is text; a name is the text of one path segment.

Slash == <<"/">>

Dot == <<".">>

DotDot == <<".", ".">>

\* _WHITELIST_ROOT = "app"
WHITELIST_ROOT == <<"a", "p", "p">>

\* str.split("/")
RECURSIVE SplitSlash(_)
SplitSlash(s) ==
    IF \A k \in 1..Len(s) : s[k] # "/" THEN <<s>>
    ELSE LET k == CHOOSE n \in 1..Len(s) : s[n] = "/" /\ \A m \in 1..(n - 1) : s[m] # "/"
         IN  <<SubSeq(s, 1, k - 1)>> \o SplitSlash(SubSeq(s, k + 1, Len(s)))

IsSegment(n) == n # <<>> /\ n # Dot

\* PurePosixPath(s): empty and "." segments are dropped, ".." is kept
PurePosixPath(s) ==
    [abs |-> s # <<>> /\ s[1] = "/", segs |-> SelectSeq(SplitSlash(s), IsSegment)]

\* PurePosixPath.parts: the root "/" is the first part of an absolute path
Parts(p) == IF p.abs THEN <<Slash>> \o p.segs ELSE p.segs

RECURSIVE JoinSlash(_)
JoinSlash(segs) ==
    IF segs = <<>> THEN <<>>
    ELSE IF Len(segs) = 1 THEN segs[1]
    ELSE segs[1] \o Slash \o JoinSlash(Tail(segs))

\* str(path)
PathStr(p) ==
    IF p.abs THEN Slash \o JoinSlash(p.segs)
    ELSE IF p.segs = <<>> THEN Dot ELSE JoinSlash(p.segs)

\* Path(args.workspace).resolve(): the workspace root, an absolute location
WORKSPACE == [abs |-> TRUE, segs |-> <<<<"w">>>>]

\* workspace / rel_path
JoinPath(base, s) ==
    LET r == PurePosixPath(s)
    IN  IF r.abs THEN r ELSE [abs |-> TRUE, segs |-> base.segs \o r.segs]

\* the location a segment list designates: ".." steps to the parent, and the
\* parent of the root is the root
RECURSIVE Collapse(_)
Collapse(segs) ==
    IF segs = <<>> THEN <<>>
    ELSE LET up == Collapse(Front(segs))
             last == segs[Len(segs)]
         IN  IF last = DotDot THEN (IF up = <<>> THEN <<>> ELSE Front(up))
             ELSE Append(up, last)

\* Path.resolve()
resolve(p) == [abs |-> TRUE, segs |-> Collapse(p.segs)]

\* _is_safe_path
is_safe_path(workspace, rel_path) ==
    LET rel == PurePosixPath(rel_path)
        abs_path == resolve(JoinPath(workspace, rel_path))
    IN  IF Len(Parts(rel)) = 0 \/ Parts(rel)[1] # WHITELIST_ROOT THEN FALSE
        ELSE StartsWith(PathStr(abs_path), PathStr(resolve(JoinPath(workspace, WHITELIST_ROOT))))

---------------------------------------------------------------------------
\* Disk operations used by the patch gate

\* Path.mkdir(parents=True, exist_ok=True) on the path with these segments:
\* every prefix is made a directory; a regular file on the way raises
RECURSIVE mkdir_parents(_, _, _)
mkdir_parents(fl, ds, segs) ==
    IF segs = <<>> THEN [raised |-> FALSE, dirs |-> ds]
    ELSE LET up == mkdir_parents(fl, ds, Front(segs)) IN
         IF up.raised THEN up
         ELSE IF Collapse(segs) \in DOMAIN fl THEN [raised |-> TRUE, dirs |-> up.dirs]
         ELSE [raised |-> FALSE, dirs |-> up.dirs \cup {Collapse(segs)}]

\* Path.write_text on an existing parent directory
WriteFile(fl, loc, content) ==
    [l \in DOMAIN fl \cup {loc} |-> IF l = loc THEN content ELSE fl[l]]

---------------------------------------------------------------------------
\* The patch gate.  A proposal is [shape, path, new_text]; shape "ok" is a
\* dict with string "path" and "new_text".

max_files == 3

max_total_lines == 3

\* _validate_schema
validate_schema(patch) ==
    IF patch.shape = "not_dict" THEN [ok |-> FALSE, msg |-> "patch must be a dict"]
    ELSE IF patch.shape \in {"no_path", "no_new_text"}
         THEN [ok |-> FALSE, msg |-> "patch requires 'path' and 'new_text'"]
    ELSE IF patch.shape = "path_not_str" THEN [ok |-> FALSE, msg |-> "'path' must be a string"]
    ELSE IF patch.shape = "new_text_not_str"
         THEN [ok |-> FALSE, msg |-> "'new_text' must be a string"]
    ELSE [ok |-> TRUE, msg |-> ""]

GateRaise(kind, fl, ds) == [raised |-> TRUE, err |-> kind, files |-> fl, dirs |-> ds]

\* the commit loop of apply_edits: fpath.write_text(content) in batch order
RECURSIVE commit_writes(_, _, _, _)
commit_writes(fl, ds, to_write, k) ==
    IF k > Len(to_write) THEN [raised |-> FALSE, err |-> "", files |-> fl, dirs |-> ds]
    ELSE LET loc == Collapse(to_write[k][1].segs) IN
         IF loc \in ds THEN GateRaise("os", fl, ds)
         ELSE commit_writes(WriteFile(fl, loc, to_write[k][2]), ds, to_write, k + 1)

commit_all_but_last(fl, ds, to_write, k) ==
    commit_writes(fl, ds, IF to_write = <<>> THEN <<>> ELSE Front(to_write), k)

commit_phase(fl, ds, to_write, k) == commit_writes(fl, ds, to_write, k)

\* a one-phase gate: every proposal is written as soon as it has passed its checks
RECURSIVE validate_loop_eager(_, _, _, _, _, _)
validate_loop_eager(fl, ds, batch, i, total_changed, to_write) ==
    IF i > Len(batch) THEN [raised |-> FALSE, err |-> "", files |-> fl, dirs |-> ds]
    ELSE LET p == batch[i] IN
    IF ~validate_schema(p).ok THEN GateRaise("schema", fl, ds)
    ELSE LET rel_path == PathStr(PurePosixPath(p.path)) IN
    IF ~is_safe_path(WORKSPACE, rel_path) THEN GateRaise("unsafe", fl, ds)
    ELSE LET file_path == JoinPath(WORKSPACE, rel_path)
             mk == mkdir_parents(fl, ds, Front(file_path.segs))
             loc == Collapse(file_path.segs)
         IN
    IF mk.raised \/ loc \in mk.dirs THEN GateRaise("os", fl, mk.dirs)
    ELSE LET old_text == IF loc \in DOMAIN fl THEN read_text(fl[loc]) ELSE <<>>
             new_text == normalize_newlines(p.new_text)
             total == total_changed + count_changed_lines(old_text, new_text)
         IN
    IF total > max_total_lines THEN GateRaise("budget", fl, mk.dirs)
    ELSE validate_loop_eager(WriteFile(fl, loc, new_text), mk.dirs, batch, i + 1, total, to_write)

\* a gate that charges a proposal against the content staged for the same
\* file by an earlier proposal of the batch, if there is one
RECURSIVE validate_loop_chained(_, _, _, _, _, _)
validate_loop_chained(fl, ds, batch, i, total_changed, to_write) ==
    IF i > Len(batch) THEN commit_phase(fl, ds, to_write, 1)
    ELSE LET p == batch[i] IN
    IF ~validate_schema(p).ok THEN GateRaise("schema", fl, ds)
    ELSE LET rel_path == PathStr(PurePosixPath(p.path)) IN
    IF ~is_safe_path(WORKSPACE, rel_path) THEN GateRaise("unsafe", fl, ds)
    ELSE LET file_path == JoinPath(WORKSPACE, rel_path)
             mk == mkdir_parents(fl, ds, Front(file_path.segs))
             loc == Collapse(file_path.segs)
         IN
    IF mk.raised \/ loc \in mk.dirs THEN GateRaise("os", fl, mk.dirs)
    ELSE LET staged == {k \in 1..Len(to_write) : Collapse(to_write[k][1].segs) = loc}
             old_text == IF staged # {} THEN to_write[CHOOSE k \in staged : \A m \in staged : m <= k][2]
                         ELSE IF loc \in DOMAIN fl THEN read_text(fl[loc]) ELSE <<>>
             new_text == normalize_newlines(p.new_text)
             total == total_changed + count_changed_lines(old_text, new_text)
         IN
    IF total > max_total_lines THEN GateRaise("budget", fl, mk.dirs)
    ELSE validate_loop_chained(fl, mk.dirs, batch, i + 1, total, Append(to_write, <<file_path, new_text>>))

\* the validation loop of apply_edits, from proposal i on
RECURSIVE validate_loop(_, _, _, _, _, _)
validate_loop(fl, ds, batch, i, total_changed, to_write) ==
    IF i > Len(batch) THEN commit_phase(fl, ds, to_write, 1)
    ELSE LET p == batch[i] IN
    IF ~validate_schema(p).ok THEN GateRaise("schema", fl, ds)
    ELSE LET rel_path == PathStr(PurePosixPath(p.path)) IN
    IF ~is_safe_path(WORKSPACE, rel_path) THEN GateRaise("unsafe", fl, ds)
    ELSE LET file_path == JoinPath(WORKSPACE, rel_path)
             mk == mkdir_parents(fl, ds, Front(file_path.segs))
             loc == Collapse(file_path.segs)
         IN
    IF mk.raised \/ loc \in mk.dirs THEN GateRaise("os", fl, mk.dirs)
    ELSE LET old_text == IF loc \in DOMAIN fl THEN read_text(fl[loc]) ELSE <<>>
             new_text == normalize_newlines(p.new_text)
             total == total_changed + count_changed_lines(old_text, new_text)
         IN
    IF total > max_total_lines THEN GateRaise("budget", fl, mk.dirs)
    ELSE validate_loop(fl, mk.dirs, batch, i + 1, total, Append(to_write, <<file_path, new_text>>))

\* apply_edits without the limit on the number of proposals
apply_edits_unlimited(fl, ds, batch) ==
    IF Len(batch) = 0 THEN [raised |-> FALSE, err |-> "", files |-> fl, dirs |-> ds]
    ELSE validate_loop(fl, ds, batch, 1, 0, <<>>)

\* apply_edits(workspace, batch) with the default limits
apply_edits(fl, ds, batch) ==
    IF Len(batch) = 0 THEN [raised |-> FALSE, err |-> "", files |-> fl, dirs |-> ds]
    ELSE IF Len(batch) > max_files THEN GateRaise("too_many", fl, ds)
    ELSE validate_loop(fl, ds, batch, 1, 0, <<>>)

---------------------------------------------------------------------------
\* The memory/reflection engine.  A memory record is a dict with the entries
\* heuristics, fix_snippets and _updated_at; a rule is a dict with the
\* entries tag, pattern, regex and advice.  A test log is described by what
\* the searches of reflect_update find in it: the set of _PATTERNS rows whose
\* regex matches, and the identifier of the first NameError, if any.

\* _PATTERNS
PATTERNS ==
    << [tag |-> "off_by_one", regex |-> <<"AssertionError.*==">>,
        advice |-> <<"Check +/- 1 around arithmetic or index bounds. Verify len/slicing.">>],
       [tag |-> "none_guard", regex |-> <<"TypeError: .*NoneType">>,
        advice |-> <<"Guard None inputs or provide defaults before arithmetic/attribute access.">>],
       [tag |-> "index_bounds", regex |-> <<"IndexError: list index out of range">>,
        advice |-> <<"Verify bounds; prefer enumerate or range(len(...))-1 checks.">>],
       [tag |-> "key_missing", regex |-> <<"KeyError: .+">>,
        advice |-> <<"Use dict.get with default or check key existence before access.">>],
       [tag |-> "import_missing", regex |-> <<"(ModuleNotFoundError|ImportError): No module named">>,
        advice |-> <<"Confirm package/install or relative import path; avoid shadowing stdlib names.">>],
       [tag |-> "type_mismatch", regex |-> <<"TypeError: .* (unsupported operand type|expected .* got .*)">>,
        advice |-> <<"Add type guards/casts; keep operations between compatible types.">>] >>

EmptyDict == [heuristics |-> None, fix_snippets |-> None, updated_at |-> None]

\* dict.setdefault("heuristics", []) and dict.setdefault("fix_snippets", [])
SetDefaults(mem) ==
    [mem EXCEPT !.heuristics = IF @ = None THEN Some(<<>>) ELSE @,
                !.fix_snippets = IF @ = None THEN Some(<<>>) ELSE @]

\* load_memory: a missing, empty or unparsable file gives {}; the defaults
\* are set outside the try block, on whatever json.loads returned
load_memory(mf) ==
    IF mf.kind \in {"missing", "empty", "corrupt"}
    THEN [raised |-> FALSE, mem |-> SetDefaults(EmptyDict)]
    ELSE IF mf.kind = "object" THEN [raised |-> FALSE, mem |-> SetDefaults(mf.obj)]
    ELSE [raised |-> TRUE, mem |-> EmptyDict]

\* save_memory: stamps _updated_at on the dict it is given and dumps it
save_memory(mem, now) == [mem EXCEPT !.updated_at = Some(now)]

max_items == 64

DedupeKey(item) == <<Get(item.tag, ""), Get(item.regex, <<>>), Get(item.advice, <<>>)>>

\* the loop of _dedupe from item i on
RECURSIVE dedupe_loop(_, _, _, _)
dedupe_loop(seq, i, seen, out) ==
    IF i > Len(seq) THEN out
    ELSE LET k == DedupeKey(seq[i])
             out1 == IF k \notin seen THEN Append(out, seq[i]) ELSE out
         IN  IF Len(out1) >= max_items THEN out1
             ELSE dedupe_loop(seq, i + 1, seen \cup {k}, out1)

\* clips at max_items without dropping anything
dedupe_clip_only(seq) == SubSeq(seq, 1, IF Len(seq) < max_items THEN Len(seq) ELSE max_items)

\* _dedupe
dedupe(seq) == dedupe_loop(seq, 1, {}, <<>>)

TableRule(i) ==
    [tag |-> Some(PATTERNS[i].tag), pattern |-> Some(PATTERNS[i].regex), regex |-> None,
     advice |-> Some(PATTERNS[i].advice)]

NameRule(sym) ==
    [tag |-> Some("name_error"), pattern |-> Some(<<"NameError:.*\\b", sym, "\\b">>), regex |-> None,
     advice |-> Some(<<"Define or import '", sym, "' before use; check scope.">>)]

RECURSIVE StagedFrom(_, _)
StagedFrom(log, i) ==
    IF i > Len(PATTERNS) THEN IF log.name = None THEN <<>> ELSE <<NameRule(log.name[1])>>
    ELSE (IF i \in log.hits THEN <<TableRule(i)>> ELSE <<>>) \o StagedFrom(log, i + 1)

\* the new_rules list of reflect_update
new_rules(log) == StagedFrom(log, 1)

\* reflect_update
reflect_update(mem, log) ==
    LET m == SetDefaults(mem)
    IN  [m EXCEPT !.heuristics = Some(dedupe(m.heuristics[1] \o new_rules(log)))]

---------------------------------------------------------------------------
\* Inputs: path strings, file texts, proposals and disks

AppLoc == WORKSPACE.segs \o <<WHITELIST_ROOT>>

\* "app/x"
PathAppX == WHITELIST_ROOT \o Slash \o <<"x">>

\* "app/./x", another spelling of app/x
PathAppDotX == WHITELIST_ROOT \o Slash \o Dot \o Slash \o <<"x">>

\* "app/d/y"
PathAppDY == WHITELIST_ROOT \o Slash \o <<"d">> \o Slash \o <<"y">>

\* "app/w"
PathAppW == WHITELIST_ROOT \o Slash \o <<"w">>

\* "app/x/z"
PathAppXZ == WHITELIST_ROOT \o Slash \o <<"x">> \o Slash \o <<"z">>

\* "app/../app2/x"
PathSibling == WHITELIST_ROOT \o Slash \o DotDot \o Slash \o WHITELIST_ROOT \o <<"2">> \o Slash \o <<"x">>

\* "app/../x"
PathUp == WHITELIST_ROOT \o Slash \o DotDot \o Slash \o <<"x">>

\* "/e/x"
PathAbs == Slash \o <<"e">> \o Slash \o <<"x">>

\* "x"
PathBare == <<"x">>

\* "a\n"
TextA == <<"a", LF>>

\* "a\nb\n"
TextAB == <<"a", LF, "b", LF>>

\* "b\r\na"
TextBA == <<"b", CR, LF, "a">>

\* "++\na\n"
TextPlus == <<"+", "+", LF, "a", LF>>

\* "a\r\nb\n"
TextDisk == <<"a", CR, LF, "b", LF>>

Edit(path, text) == [shape |-> "ok", path |-> path, new_text |-> text]

\* a proposal that is not a dict, lacks a key, or has a path or a new_text
\* that is not a str; path and new_text then stand for str() of the value
Malformed(shape) == [shape |-> shape, path |-> PathAppX, new_text |-> TextA]

NoFiles == [l \in {} |-> <<>>]

\* an empty workspace
DiskEmpty == [files |-> NoFiles, dirs |-> {<<>>, WORKSPACE.segs}]

\* app/x is a file
DiskApp ==
    [files |-> [l \in {Append(AppLoc, <<"x">>)} |-> TextDisk],
     dirs |-> {<<>>, WORKSPACE.segs, AppLoc}]

\* app/x is a directory and app/d is a file
DiskDir ==
    [files |-> [l \in {Append(AppLoc, <<"d">>)} |-> TextA],
     dirs |-> {<<>>, WORKSPACE.segs, AppLoc, Append(AppLoc, <<"x">>)}]

GateDisks == {DiskEmpty, DiskApp, DiskDir}

GateProposals ==
    { Edit(PathAppX, TextA), Edit(PathAppDotX, TextBA), Edit(PathAppDY, TextAB),
      Edit(PathAppDY, TextA), Edit(PathAppDY, TextPlus), Edit(PathAppXZ, TextA), Edit(PathAppW, TextA), Edit(PathSibling, TextA),
      Edit(PathUp, TextA), Edit(PathAbs, TextA), Edit(PathBare, TextA),
      Malformed("not_dict") }

MaxBatch == max_files + 1

GateBatches == UNION {[1..n -> GateProposals] : n \in 0..MaxBatch}

\* the batches the planner may return
PlanBatches ==
    { <<>>,
      <<Edit(PathAppX, TextA)>>,
      <<Edit(PathAppDY, TextAB), Edit(PathAppDotX, TextBA)>>,
      <<Edit(PathUp, TextA)>>,
      <<Malformed("not_dict")>>,
      <<Edit(PathAppX, TextA), Malformed("no_new_text")>>,
      <<Malformed("path_not_str")>>,
      <<Malformed("new_text_not_str")>> }

\* what the searches of reflect_update find in a test log
LogQuiet == [hits |-> {}, name |-> None]

LogAssert == [hits |-> {1}, name |-> None]

LogName == [hits |-> {2, 6}, name |-> Some("foo")]

Logs == {LogQuiet, LogAssert, LogName}

StoredRule ==
    [tag |-> Some("off_by_one"), pattern |-> Some(<<"AssertionError.*==">>), regex |-> None,
     advice |-> Some(<<"Check +/- 1 around arithmetic or index bounds.">>)]

\* states of agent/memory.json before the run
MemFiles ==
    { [kind |-> "missing", obj |-> EmptyDict],
      [kind |-> "empty", obj |-> EmptyDict],
      [kind |-> "corrupt", obj |-> EmptyDict],
      [kind |-> "object", obj |-> EmptyDict],
      [kind |-> "object", obj |-> [EmptyDict EXCEPT !.heuristics = Some(<<StoredRule>>)]],
      [kind |-> "list", obj |-> EmptyDict] }

CtlDisks == {DiskEmpty, DiskApp, DiskDir}

MaxIters == 3

MaxTime == 2

---------------------------------------------------------------------------
\* The patch gate on its own: apply_edits called once on a disk and a batch

\* the history of a run that has not started: no node ran, memory.json was
\* neither loaded nor saved, plan_fix was not called and no test was run
NoHistory ==
    [plans |-> 0, applies |-> 0, runs |-> 0, reflects |-> 0, passes |-> 0,
     loads |-> 0, saves |-> 0, planned_with |-> None, tested |-> None]

ReflIdle ==
    /\ refl_phase = "idle"
    /\ refl_before = EmptyDict
    /\ refl_once = EmptyDict

CtlIdle ==
    /\ edits_json = None
    /\ mem_file = [kind |-> "missing", obj |-> EmptyDict]
    /\ node = "idle"
    /\ iter = 0
    /\ max_iters = 0
    /\ memory = None
    /\ file_summaries = None
    /\ patches = None
    /\ tests_passed = None
    /\ test_passed = None
    /\ test_log = None
    /\ error_flag = None
    /\ message = None
    /\ exit_code = None
    /\ last_node = "none"
    /\ hist = NoHistory

InitGate ==
    /\ \E d \in GateDisks :
        /\ files = d.files
        /\ dirs = d.dirs
        /\ gate_files0 = d.files
        /\ gate_dirs0 = d.dirs
    /\ gate_batch \in GateBatches
    /\ gate_phase = "ready"
    /\ gate_raised = FALSE
    /\ gate_err = ""
    /\ CtlIdle
    /\ ReflIdle

GateApply ==
    /\ gate_phase = "ready"
    /\ LET r == apply_edits(files, dirs, gate_batch) IN
        /\ files' = r.files
        /\ dirs' = r.dirs
        /\ gate_raised' = r.raised
        /\ gate_err' = r.err
    /\ gate_phase' = "done"
    /\ UNCHANGED <<gate_batch, gate_files0, gate_dirs0, edits_json, mem_file, state_vars, ctl_vars, refl_vars>>

NextGate == GateApply

SpecGate == InitGate /\ [][NextGate]_vars

---------------------------------------------------------------------------
\* Properties of the patch gate (checked under SpecGate)

GateDone == gate_phase = "done"

WellFormed(p) == validate_schema(p).ok

\* the location on disk that a well-formed proposal targets
TargetLoc(p) == Collapse(JoinPath(WORKSPACE, PathStr(PurePosixPath(p.path))).segs)

\* the locations a proposal's path passes through before reaching its target
WayLocs(p) ==
    LET segs == JoinPath(WORKSPACE, PathStr(PurePosixPath(p.path))).segs
    IN  {Collapse(SubSeq(segs, 1, n)) : n \in 0..(Len(segs) - 1)}

\* loc lies strictly below <workspace>/app, compared name by name
InsideApp(loc) == Len(loc) > Len(AppLoc) /\ SubSeq(loc, 1, Len(AppLoc)) = AppLoc

\* the path is relative, starts with "app" and designates a location inside <workspace>/app
ConfinedPath(p) ==
    LET rel == PurePosixPath(p.path)
    IN  ~rel.abs /\ rel.segs # <<>> /\ rel.segs[1] = WHITELIST_ROOT /\ InsideApp(TargetLoc(p))

\* added plus removed lines of the line diff between the content on disk before
\* the call and the normalized new content
ChangedLines(p) ==
    LET loc == TargetLoc(p)
        old_text == IF loc \in DOMAIN gate_files0 THEN read_text(gate_files0[loc]) ELSE <<>>
    IN  count_changed_lines_nofilter(old_text, normalize_newlines(p.new_text))

RECURSIVE TotalChanged(_, _)
TotalChanged(batch, i) ==
    IF i > Len(batch) THEN 0 ELSE ChangedLines(batch[i]) + TotalChanged(batch, i + 1)

\* the same total as the gate counts it
CountedLines(p) ==
    LET loc == TargetLoc(p)
        old_text == IF loc \in DOMAIN gate_files0 THEN read_text(gate_files0[loc]) ELSE <<>>
    IN  count_changed_lines(old_text, normalize_newlines(p.new_text))

RECURSIVE TotalCounted(_, _)
TotalCounted(batch, i) ==
    IF i > Len(batch) THEN 0 ELSE CountedLines(batch[i]) + TotalCounted(batch, i + 1)

Idx == 1..Len(gate_batch)

\* the locations whose content the call changed or created
WrittenLocs ==
    {l \in DOMAIN files : l \notin DOMAIN gate_files0 \/ files[l] # gate_files0[l]}

\* some proposal of the batch fails the gate's validation
FailsValidation ==
    \/ Len(gate_batch) > max_files
    \/ \E i \in Idx : ~WellFormed(gate_batch[i])
    \/ \E i \in Idx : WellFormed(gate_batch[i])
                      /\ ~is_safe_path(WORKSPACE, PathStr(PurePosixPath(gate_batch[i].path)))
    \/ /\ \A i \in Idx : WellFormed(gate_batch[i])
       /\ TotalCounted(gate_batch, 1) > max_total_lines

\* C6: apply_edits is all-or-nothing over file contents: when the batch has
\* more than max_files proposals, or a proposal with a bad schema or a path the
\* gate finds unsafe, or exceeds the change budget, the call raises and every
\* file holds the content it had before the call.
C6_AllOrNothing ==
    GateDone /\ FailsValidation => gate_raised /\ files = gate_files0

\* a valid proposal for a new file is followed by a proposal with an unsafe path
C6_Witness ==
    /\ GateDone
    /\ Len(gate_batch) = 2
    /\ gate_batch[1] = Edit(PathAppDY, TextAB)
    /\ gate_batch[2] = Edit(PathUp, TextA)
    /\ gate_files0 = NoFiles
    /\ gate_err = "unsafe"
    /\ files = gate_files0

\* C7: a proposal whose path is absolute, does not start with "app" or
\* designates a location outside <workspace>/app makes the call raise, and
\* every file the call writes lies inside <workspace>/app.
C7_PathConfinement ==
    GateDone =>
        /\ \A i \in Idx : WellFormed(gate_batch[i]) /\ ~ConfinedPath(gate_batch[i]) => gate_raised
        /\ \A l \in WrittenLocs : InsideApp(l)


AllWellFormed == \A i \in Idx : WellFormed(gate_batch[i])

AllConfined == \A i \in Idx : ConfinedPath(gate_batch[i])

\* at most max_files well-formed proposals with confined paths, within the budget
AcceptableBatch ==
    /\ Len(gate_batch) <= max_files
    /\ AllWellFormed
    /\ AllConfined
    /\ TotalChanged(gate_batch, 1) <= max_total_lines

\* the call succeeded, every directory on the way to every target exists and
\* every target holds the normalized new content of its proposal
AppliedAsProposed ==
    /\ ~gate_raised
    /\ \A i \in Idx :
        LET loc == TargetLoc(gate_batch[i]) IN
        /\ WayLocs(gate_batch[i]) \subseteq dirs
        /\ loc \in DOMAIN files
        /\ files[loc] = normalize_newlines(gate_batch[i].new_text)
        /\ \A k \in 1..Len(files[loc]) : files[loc][k] # CR

DistinctTargets ==
    \A i, j \in Idx : i # j => TargetLoc(gate_batch[i]) # TargetLoc(gate_batch[j])

\* before the call no target is a directory and no regular file lies on the way
\* to a target, and no target of the batch lies on the way to another target
NoDiskConflict ==
    \A i \in Idx :
        /\ TargetLoc(gate_batch[i]) \notin gate_dirs0
        /\ \A q \in WayLocs(gate_batch[i]) :
            /\ q \notin DOMAIN gate_files0
            /\ \A j \in Idx : TargetLoc(gate_batch[j]) # q

\* C8 as stated: every batch of at most max_files well-formed proposals within
\* the change budget whose paths are confined to <workspace>/app is applied:
\* no exception, parent directories created, each target holding exactly the
\* normalized new content of its proposal.
C8_Original == GateDone /\ AcceptableBatch => AppliedAsProposed

\* C8 (amended): the same, for batches whose targets are pairwise distinct and
\* meet no conflict on disk (no target is a directory, no regular file or other
\* target of the batch lies on the way to a target).
C8_ValidBatchApplied ==
    GateDone /\ AcceptableBatch /\ DistinctTargets /\ NoDiskConflict => AppliedAsProposed

\* two new files, one given with \r\n line ends, written below a new directory
C8_Witness ==
    /\ GateDone
    /\ gate_batch = <<Edit(PathAppDotX, TextBA), Edit(PathAppDY, TextA)>>
    /\ gate_files0 = NoFiles
    /\ AcceptableBatch /\ DistinctTargets /\ NoDiskConflict
    /\ ~gate_raised
    /\ Append(AppLoc, <<"d">>) \in dirs \ gate_dirs0
    /\ files[Append(AppLoc, <<"x">>)] = <<"b", LF, "a">>

\* C9: a batch of well-formed proposals with confined paths is rejected, with
\* no file written, exactly when the added plus removed lines of its diffs
\* against the disk sum to more than max_total_lines.
C9_ChangeBudget ==
    GateDone /\ Len(gate_batch) \in 1..max_files /\ AllWellFormed /\ AllConfined /\ gate_err # "os"
        => ((gate_raised /\ files = gate_files0) <=> TotalChanged(gate_batch, 1) > max_total_lines)

\* C18: a batch of more than max_files proposals is rejected before any
\* proposal is validated or written (no file and no directory changes), and a
\* batch of exactly max_files proposals that is valid otherwise is applied.
C18_FileCountLimit ==
    GateDone =>
        /\ Len(gate_batch) > max_files
             => gate_raised /\ gate_err = "too_many" /\ files = gate_files0 /\ dirs = gate_dirs0
        /\ Len(gate_batch) = max_files /\ AcceptableBatch /\ DistinctTargets /\ NoDiskConflict
             => AppliedAsProposed

\* three new files are written by one call
C18_Witness ==
    /\ GateDone
    /\ gate_batch = <<Edit(PathAppX, TextA), Edit(PathAppDY, TextA), Edit(PathAppW, TextA)>>
    /\ Len(gate_batch) = max_files
    /\ gate_files0 = NoFiles
    /\ ~gate_raised
    /\ {Append(AppLoc, <<"x">>), Append(AppLoc, <<"w">>)} \subseteq DOMAIN files

\* C23: directories are created in the commit phase only: when the batch
\* fails validation, the directories of the workspace are the ones that
\* existed before the call, as are the contents of its files.
C23_DirsOnlyOnCommit ==
    GateDone /\ FailsValidation => gate_raised /\ dirs = gate_dirs0 /\ files = gate_files0

\* two proposals of the batch target the same file
HasDuplicate ==
    \E i, j \in Idx : i < j /\ TargetLoc(gate_batch[i]) = TargetLoc(gate_batch[j])

\* the last proposal of the batch for the file that proposal i targets
LastFor(i) ==
    CHOOSE j \in Idx :
        /\ TargetLoc(gate_batch[j]) = TargetLoc(gate_batch[i])
        /\ \A k \in Idx : TargetLoc(gate_batch[k]) = TargetLoc(gate_batch[i]) => k <= j

\* C24: a batch with two proposals for the same file is not rejected for
\* that: if valid otherwise, it is rejected exactly when the lines the gate
\* counts for each proposal against the content on disk before the call sum
\* to more than max_total_lines, and when it is accepted every target holds
\* the content of the last proposal for it.
C24_DuplicateTargets ==
    GateDone /\ Len(gate_batch) <= max_files /\ AllWellFormed /\ AllConfined /\ NoDiskConflict
             /\ HasDuplicate
        => /\ gate_raised <=> TotalCounted(gate_batch, 1) > max_total_lines
           /\ ~gate_raised =>
                \A i \in Idx : files[TargetLoc(gate_batch[i])]
                                  = normalize_newlines(gate_batch[LastFor(i)].new_text)

\* app/x is proposed twice, as app/x and as app/./x, and holds the second content
C24_Witness ==
    /\ GateDone
    /\ gate_batch = <<Edit(PathAppX, TextA), Edit(PathAppDotX, TextBA)>>
    /\ gate_files0 = DiskApp.files
    /\ HasDuplicate
    /\ ~gate_raised
    /\ files[Append(AppLoc, <<"x">>)] = <<"b", LF, "a">>

\* the gate's threshold on the lines it counts: rejected exactly above the limit
ThresholdOnCountedLines ==
    GateDone /\ Len(gate_batch) \in 1..max_files /\ AllWellFormed /\ AllConfined /\ gate_err # "os"
        => ((gate_raised /\ files = gate_files0) <=> TotalCounted(gate_batch, 1) > max_total_lines)

---------------------------------------------------------------------------
\* The nodes of the graph (agent/cli.py) and its routing (agent/graph.py)

END == "END"

\* truth value of state.get(key)
Truthy(entry) == Get(entry, FALSE)

max_lines == 80

\* "t/y": with app/x, the two files read_context summarizes
PathTests == <<"t">> \o Slash \o <<"y">>

SummaryPaths == <<PathAppX, PathTests>>

RECURSIVE JoinLines(_)
JoinLines(lines) ==
    IF lines = <<>> THEN <<>>
    ELSE IF Len(lines) = 1 THEN lines[1]
    ELSE lines[1] \o <<LF>> \o JoinLines(Tail(lines))

FirstLines(lines, n) == SubSeq(lines, 1, IF Len(lines) < n THEN Len(lines) ELSE n)

\* summarize_files: the first max_lines lines of each listed path that exists
summarize_files(fl, ds, paths) ==
    LET loc(k) == Collapse(JoinPath(WORKSPACE, paths[k]).segs)
        present == {k \in 1..Len(paths) : loc(k) \in DOMAIN fl \cup ds}
    IN  IF \E k \in present : loc(k) \in ds THEN [raised |-> TRUE, out |-> {}]
        ELSE [raised |-> FALSE,
              out |-> {<<paths[k], JoinLines(FirstLines(splitlines(read_text(fl[loc(k)])), max_lines))>> : k \in present}]

\* one entry of the payload of write_edits_json
PayloadItem(p) ==
    [path |-> IF p.shape = "no_path" THEN Dot ELSE PathStr(PurePosixPath(p.path)),
     newText |-> IF p.shape = "no_new_text" THEN <<>> ELSE p.new_text]

\* write_edits_json: creates .selfevolve, builds the payload with p.get (which
\* a proposal that is not a dict does not have), then writes edits.json
write_edits_json(fl, ds, old, batch) ==
    LET mk == mkdir_parents(fl, ds, Append(WORKSPACE.segs, <<".selfevolve">>)) IN
    IF mk.raised \/ \E i \in 1..Len(batch) : batch[i].shape = "not_dict"
    THEN [raised |-> TRUE, dirs |-> mk.dirs, edits_json |-> old]
    ELSE [raised |-> FALSE, dirs |-> mk.dirs,
          edits_json |-> Some([i \in 1..Len(batch) |-> PayloadItem(batch[i])])]

\* the try block without the test for an empty batch
try_apply_patch_unguarded(fl, ds, old, batch) ==
    LET we == write_edits_json(fl, ds, old, batch) IN
    IF we.raised
    THEN [raised |-> TRUE, err |-> "write_edits_json", files |-> fl, dirs |-> we.dirs, edits_json |-> old]
    ELSE LET ap == apply_edits(fl, we.dirs, batch)
         IN  [raised |-> ap.raised, err |-> ap.err, files |-> ap.files, dirs |-> ap.dirs,
              edits_json |-> we.edits_json]

\* the try block of node_apply_patch
try_apply_patch(fl, ds, old, batch) ==
    IF batch = <<>> THEN [raised |-> FALSE, err |-> "", files |-> fl, dirs |-> ds, edits_json |-> old]
    ELSE LET we == write_edits_json(fl, ds, old, batch) IN
         IF we.raised
         THEN [raised |-> TRUE, err |-> "write_edits_json", files |-> fl, dirs |-> we.dirs, edits_json |-> old]
         ELSE LET ap == apply_edits(fl, we.dirs, batch)
              IN  [raised |-> ap.raised, err |-> ap.err, files |-> ap.files, dirs |-> ap.dirs,
                   edits_json |-> we.edits_json]

route_after_apply_ignoring_errors(flag) == "RunTests"

\* _route_after_apply
route_after_apply(flag) == IF Truthy(flag) THEN END ELSE "RunTests"

route_after_tests_late(flag, passed, it, mx) ==
    IF Truthy(flag) THEN END
    ELSE IF Truthy(passed) THEN END
    ELSE IF it >= mx THEN END
    ELSE "Reflect"

\* _route_after_tests; passed is the entry of the key "test_passed"
route_after_tests(flag, passed, it, mx) ==
    IF Truthy(flag) THEN END
    ELSE IF Truthy(passed) THEN END
    ELSE IF it + 1 >= mx THEN END
    ELSE "Reflect"

\* sys.exit(0 if result.get("tests_passed") else 1)
exit_status(passed) == IF Truthy(passed) THEN 0 ELSE 1

Bump(h, field) == [h EXCEPT ![field] = @ + 1]

\* read_context
ReadContext ==
    /\ node = "ReadContext"
    /\ LET lm == load_memory(mem_file)
           sm == summarize_files(files, dirs, SummaryPaths)
       IN  IF lm.raised \/ sm.raised
           THEN /\ node' = "crashed"
                /\ UNCHANGED <<memory, file_summaries>>
           ELSE /\ node' = "PlanFix"
                /\ memory' = Some(lm.mem)
                /\ file_summaries' = Some(sm.out)
    /\ last_node' = "ReadContext"
    /\ hist' = Bump(hist, "loads")
    /\ UNCHANGED <<disk_vars, iter, max_iters, patches, tests_passed, test_passed, test_log,
                   error_flag, message, exit_code, gate_vars, refl_vars>>

\* node_plan_fix made to count the attempt as well
PlanFix_counting ==
    /\ node = "PlanFix"
    /\ \E b \in PlanBatches : patches' = Some(b)
    /\ iter' = iter + 1
    /\ node' = "ApplyPatch"
    /\ last_node' = "PlanFix"
    /\ hist' = [Bump(hist, "plans") EXCEPT !.planned_with = memory]
    /\ UNCHANGED <<disk_vars, max_iters, memory, file_summaries, tests_passed, test_passed,
                   test_log, error_flag, message, exit_code, gate_vars, refl_vars>>

\* node_plan_fix: the planner is a delegate; it returns some batch
PlanFix ==
    /\ node = "PlanFix"
    /\ \E b \in PlanBatches : patches' = Some(b)
    /\ node' = "ApplyPatch"
    /\ last_node' = "PlanFix"
    /\ hist' = [Bump(hist, "plans") EXCEPT !.planned_with = memory]
    /\ UNCHANGED <<disk_vars, iter, max_iters, memory, file_summaries, tests_passed, test_passed,
                   test_log, error_flag, message, exit_code, gate_vars, refl_vars>>

\* node_apply_patch, then _route_after_apply
ApplyPatch ==
    /\ node = "ApplyPatch"
    /\ LET r == try_apply_patch(files, dirs, edits_json, Get(patches, <<>>)) IN
        /\ files' = r.files
        /\ dirs' = r.dirs
        /\ edits_json' = r.edits_json
        /\ error_flag' = Some(r.raised)
        /\ message' = IF r.raised THEN Some(r.err) ELSE message
    /\ node' = route_after_apply(error_flag')
    /\ last_node' = "ApplyPatch"
    /\ hist' = Bump(hist, "applies")
    /\ UNCHANGED <<mem_file, iter, max_iters, memory, file_summaries, patches, tests_passed,
                   test_passed, test_log, exit_code, gate_vars, refl_vars>>

\* node_run_tests, then _route_after_tests.  The runner is a delegate: the
\* subprocess exits with status 0 or not and leaves some log, or
\* subprocess.run itself raises because the process cannot be started
RunTests ==
    /\ node = "RunTests"
    /\ \E outcome \in {"pass", "fail", "not_started"}, log \in Logs :
        IF outcome = "not_started"
        THEN /\ log = LogQuiet
             /\ node' = "crashed"
             /\ UNCHANGED <<tests_passed, test_log, hist>>
        ELSE /\ tests_passed' = Some(outcome = "pass")
             /\ test_log' = Some(log)
             /\ node' = route_after_tests(error_flag, test_passed, iter, max_iters)
             /\ hist' = [(IF outcome = "pass" THEN Bump(Bump(hist, "runs"), "passes")
                          ELSE Bump(hist, "runs"))
                         EXCEPT !.tested = Some([files |-> files, tests_passed |-> tests_passed',
                                                 test_log |-> test_log'])]
    /\ last_node' = "RunTests"
    /\ UNCHANGED <<disk_vars, iter, max_iters, memory, file_summaries, patches, test_passed,
                   error_flag, message, exit_code, gate_vars, refl_vars>>

\* node_reflect keeping in the state the record as it was before save_memory
\* stamped it
Reflect_unstamped ==
    /\ node = "Reflect"
    /\ LET mk == mkdir_parents(files, dirs, Append(WORKSPACE.segs, <<"agent">>))
           mem == reflect_update(Get(memory, EmptyDict), Get(test_log, LogQuiet))
       IN  IF mk.raised
           THEN /\ node' = "crashed"
                /\ dirs' = mk.dirs
                /\ UNCHANGED <<mem_file, memory, iter, hist>>
           ELSE \E now \in 1..MaxTime :
                /\ node' = "PlanFix"
                /\ dirs' = mk.dirs
                /\ mem_file' = [kind |-> "object", obj |-> save_memory(mem, now)]
                /\ memory' = Some(mem)
                /\ iter' = iter + 1
                /\ hist' = Bump(Bump(hist, "reflects"), "saves")
    /\ last_node' = "Reflect"
    /\ UNCHANGED <<files, edits_json, max_iters, file_summaries, patches, tests_passed, test_passed,
                   test_log, error_flag, message, exit_code, gate_vars, refl_vars>>

\* node_reflect: reflect_update, save_memory, iter + 1
Reflect ==
    /\ node = "Reflect"
    /\ LET mk == mkdir_parents(files, dirs, Append(WORKSPACE.segs, <<"agent">>))
           mem == reflect_update(Get(memory, EmptyDict), Get(test_log, LogQuiet))
       IN  IF mk.raised
           THEN /\ node' = "crashed"
                /\ dirs' = mk.dirs
                /\ UNCHANGED <<mem_file, memory, iter, hist>>
           ELSE \E now \in 1..MaxTime :
                /\ node' = "PlanFix"
                /\ dirs' = mk.dirs
                /\ mem_file' = [kind |-> "object", obj |-> save_memory(mem, now)]
                /\ memory' = Some(save_memory(mem, now))
                /\ iter' = iter + 1
                /\ hist' = Bump(Bump(hist, "reflects"), "saves")
    /\ last_node' = "Reflect"
    /\ UNCHANGED <<files, edits_json, max_iters, file_summaries, patches, tests_passed, test_passed,
                   test_log, error_flag, message, exit_code, gate_vars, refl_vars>>

\* main after app.invoke returns (or raises): the process exits
Exit ==
    /\ node \in {END, "crashed"}
    /\ exit_code' = Some(IF node = "crashed" THEN 1 ELSE exit_status(tests_passed))
    /\ node' = "exited"
    /\ UNCHANGED <<disk_vars, state_vars, last_node, hist, gate_vars, refl_vars>>

GateIdle ==
    /\ gate_phase = "idle"
    /\ gate_batch = <<>>
    /\ gate_files0 = NoFiles
    /\ gate_dirs0 = {}
    /\ gate_raised = FALSE
    /\ gate_err = ""

\* main: S(repo, iter=0, max_iters=args.max_iters) on some workspace
Init ==
    /\ \E d \in CtlDisks : files = d.files /\ dirs = d.dirs
    /\ edits_json = None
    /\ mem_file \in MemFiles
    /\ node = "ReadContext"
    /\ iter = 0
    /\ max_iters \in 1..MaxIters
    /\ memory = None
    /\ file_summaries = None
    /\ patches = None
    /\ tests_passed = None
    /\ test_passed = None
    /\ test_log = None
    /\ error_flag = None
    /\ message = None
    /\ exit_code = None
    /\ last_node = "none"
    /\ hist = NoHistory
    /\ GateIdle
    /\ ReflIdle

Next == ReadContext \/ PlanFix \/ ApplyPatch \/ RunTests \/ Reflect \/ Exit

Spec == Init /\ [][Next]_vars

\* the positions of a run
Nodes == {"ReadContext", "PlanFix", "ApplyPatch", "RunTests", "Reflect", END, "crashed", "exited"}

\* the run moves on: app.invoke runs the node that is due, and main exits
\* when app.invoke has returned or raised.  Every step of Next is such a step.
NodeStep == node \in Nodes \ {"exited"} /\ node' \in Nodes \ {node}

\* every call returns or raises, and the run then moves on
SpecLive == Init /\ [][Next]_vars /\ WF_node(NodeStep)

---------------------------------------------------------------------------
\* Properties of the controller (checked under Spec)

Fatal == Truthy(error_flag)

\* C1: a RunTests step that ends with tests_passed true and no fatal error
\* leads to END: the run stops there and Reflect does not run.
C1_SuccessShortCircuits ==
    [][node = "RunTests" /\ node' # "crashed" /\ tests_passed' = Some(TRUE) /\ ~Truthy(error_flag')
        => node' = END]_vars

\* every test run so far failed and the patch gate never raised
AlwaysFailed == hist.runs >= 1 /\ hist.passes = 0 /\ ~Fatal

\* C2 as stated: with max_iters = N, a runner that always fails and no
\* exception of the patch gate, the run ends after exactly N Reflect steps,
\* with iter = N and tests_passed false.
C2_Original ==
    node = END /\ AlwaysFailed
        => iter = max_iters /\ hist.reflects = max_iters /\ tests_passed = Some(FALSE)

\* C2 (amended): under the same conditions the run ends after exactly N
\* RunTests steps and N - 1 Reflect steps, with iter = N - 1 and
\* tests_passed false.
C2_ExhaustedBudget ==
    node = END /\ AlwaysFailed
        => /\ iter = max_iters - 1
           /\ hist.reflects = max_iters - 1
           /\ hist.runs = max_iters
           /\ tests_passed = Some(FALSE)

\* a run with max_iters = 3 whose three test runs all failed
C2_Witness ==
    node = END /\ AlwaysFailed /\ max_iters = 3 /\ hist.runs = 3 /\ hist.reflects = 2

\* C3: iter never exceeds max_iters, and PlanFix never starts with iter
\* having reached max_iters.
C3_AttemptBound == iter <= max_iters /\ (node = "PlanFix" => iter < max_iters)

\* PlanFix about to start the last attempt the budget allows, after a Reflect
C3_Witness == node = "PlanFix" /\ last_node = "Reflect" /\ iter = max_iters - 1 /\ max_iters = MaxIters

\* apply_edits is called in this ApplyPatch step and raises
GateRaises ==
    /\ node = "ApplyPatch"
    /\ Get(patches, <<>>) # <<>>
    /\ ~write_edits_json(files, dirs, edits_json, Get(patches, <<>>)).raised
    /\ try_apply_patch(files, dirs, edits_json, Get(patches, <<>>)).raised

\* C4: when apply_edits raises in an ApplyPatch step, the step sets
\* error_flag, records a message and leads to END; and once error_flag is set
\* no node runs any more.
C4_FatalStops ==
    [][/\ GateRaises => error_flag' = Some(TRUE) /\ message' # None /\ node' = END
       /\ Fatal => hist' = hist /\ last_node' = last_node /\ node' \in {END, "exited"}]_vars

\* a run stopped by an unsafe path in its second iteration
C4_Witness ==
    /\ node = "exited"
    /\ error_flag = Some(TRUE)
    /\ message = Some("unsafe")
    /\ last_node = "ApplyPatch"
    /\ hist.reflects = 1

\* C5: a run that ends with error_flag set exits with a non-zero status, and
\* status 0 is only reported when tests_passed is true and error_flag is not set.
C5_FatalExitsNonZero ==
    node = "exited" =>
        /\ Fatal => exit_code # Some(0)
        /\ exit_code = Some(0) => tests_passed = Some(TRUE) /\ ~Fatal

\* the payload that holds a batch
Serialized(batch) == [i \in 1..Len(batch) |-> PayloadItem(batch[i])]

\* C10: after every ApplyPatch step edits.json holds the batch of that step.
C10_ArtifactEveryStep ==
    [][node = "ApplyPatch" => edits_json' = Some(Serialized(Get(patches, <<>>)))]_vars

\* C11: write_edits_json validates nothing and runs before apply_edits: in
\* every ApplyPatch step whose non-empty batch apply_edits rejects, the step
\* records the fatal error and edits.json then holds that batch.
C11_ArtifactBeforeReject ==
    [][/\ node = "ApplyPatch"
       /\ Get(patches, <<>>) # <<>>
       /\ apply_edits(files, dirs, Get(patches, <<>>)).raised
       => error_flag' = Some(TRUE) /\ edits_json' = Some(Serialized(Get(patches, <<>>)))]_vars

\* C17: an empty batch is a no-op that is not fatal: apply_edits on an empty
\* list returns without raising and leaves files and directories as they are,
\* and an ApplyPatch step with no proposals changes no file or directory,
\* leaves error_flag false and leads to RunTests.
C17_EmptyBatchNoOp ==
    [][node = "ApplyPatch" /\ Get(patches, <<>>) = <<>>
        => /\ LET r == apply_edits(files, dirs, <<>>)
              IN  ~r.raised /\ r.files = files /\ r.dirs = dirs
           /\ files' = files /\ dirs' = dirs
           /\ error_flag' = Some(FALSE)
           /\ node' = "RunTests"]_vars

\* the planner returned no proposals in the second iteration and the step went on to the tests
C17_Witness ==
    /\ node = "RunTests"
    /\ last_node = "ApplyPatch"
    /\ patches = Some(<<>>)
    /\ error_flag = Some(FALSE)
    /\ iter = 1

C20_IterOnlyInReflect ==
    /\ [](iter = hist.reflects)
    /\ [][/\ max_iters' = max_iters
          /\ node = "Reflect" /\ node' # "crashed" => iter' = iter + 1
          /\ node # "Reflect" => iter' = iter]_vars

\* the second Reflect step of a run has just completed
C20_Witness ==
    node = "PlanFix" /\ last_node = "Reflect" /\ iter = 2 /\ hist.reflects = 2 /\ hist.runs = 2

\* C21: memory.json is loaded exactly once in a run, by ReadContext, and
\* saved exactly once in every Reflect step and in no other step; after a
\* Reflect step the saved record is the memory of the state, and that is the
\* record the next PlanFix hands to plan_fix.
C21_MemoryFileIO ==
    /\ [](hist.loads = (IF last_node = "none" THEN 0 ELSE 1) /\ hist.saves = hist.reflects)
    /\ [][/\ node # "Reflect" => mem_file' = mem_file
          /\ node = "Reflect" /\ node' # "crashed"
               => mem_file' = [kind |-> "object", obj |-> memory'[1]]
          /\ node = "PlanFix" /\ last_node = "Reflect"
               => hist'.planned_with = Some(mem_file.obj)]_vars

\* the planner has been called with the record that the second Reflect step saved
C21_Witness ==
    /\ last_node = "PlanFix"
    /\ hist.saves = 2
    /\ hist.planned_with = Some(mem_file.obj)
    /\ Len(mem_file.obj.heuristics[1]) >= 3

\* the files below <workspace>/app with their contents
AppFiles(fl) == {<<l, fl[l]>> : l \in {q \in DOMAIN fl : InsideApp(q)}}

C12_LoadNeverFails ==
    [][node = "ReadContext" /\ ~summarize_files(files, dirs, SummaryPaths).raised
        => /\ node' = "PlanFix"
           /\ memory' # None
           /\ memory'[1].heuristics # None /\ memory'[1].fix_snippets # None
           /\ mem_file.kind \in {"missing", "empty", "corrupt"}
                => memory'[1].heuristics = Some(<<>>) /\ memory'[1].fix_snippets = Some(<<>>)]_vars

\* C16: a test runner that cannot be started is an ordinary failing run:
\* every RunTests step sets tests_passed and test_log and is followed by
\* END or Reflect; no exception leaves the node.
C16_RunnerFailureIsOrdinary ==
    [][node = "RunTests"
        => node' \in {END, "Reflect"} /\ tests_passed' # None /\ test_log' # None]_vars

---------------------------------------------------------------------------
\* The reflection engine on its own: reflect_update called twice with the
\* same test log on a memory record

\* a rule of the table as reflect_update stored it in an earlier run
RuleSeen == TableRule(1)

\* two rules that differ only in their pattern
RuleVariantA == [tag |-> Some("custom"), pattern |-> Some(<<"ValueError: a">>), regex |-> None,
                 advice |-> Some(<<"Check the value.">>)]

RuleVariantB == [RuleVariantA EXCEPT !.pattern = Some(<<"ValueError: b">>)]

\* the off_by_one rule of the table with a pattern edited by hand
RuleEdited == [TableRule(1) EXCEPT !.pattern = Some(<<"assert .* == .*">>)]

\* the i-th of a family of pairwise different rules
Filler(i) == [tag |-> Some("filler"), pattern |-> Some(<<"filler ", ToString(i)>>), regex |-> None,
              advice |-> Some(<<"See note ", ToString(i), ".">>)]

Fillers(n) == [i \in 1..n |-> Filler(i)]

\* the heuristics lists of the records handed to reflect_update
ReflLists ==
    { <<>>, <<StoredRule>>, <<RuleSeen>>, <<StoredRule, RuleSeen, StoredRule>>,
      <<RuleVariantA, RuleVariantB>>, <<RuleEdited>>,
      Fillers(max_items - 3), Fillers(max_items - 2), Fillers(max_items - 1), Fillers(max_items),
      Fillers(max_items + 1), Fillers(max_items - 1) \o <<Filler(1)>>,
      <<Filler(1)>> \o Fillers(max_items) }

ReflRecords ==
    {EmptyDict} \cup {[EmptyDict EXCEPT !.heuristics = Some(h), !.fix_snippets = Some(<<>>)] : h \in ReflLists}

LogMany == [hits |-> {1, 3, 4, 5}, name |-> Some("bar")]

ReflLogs == Logs \cup {LogMany, [hits |-> {1, 2}, name |-> None]}

InitReflect ==
    /\ memory \in {Some(r) : r \in ReflRecords}
    /\ test_log \in {Some(l) : l \in ReflLogs}
    /\ refl_phase = "ready"
    /\ refl_before = memory[1]
    /\ refl_once = EmptyDict
    /\ files = NoFiles
    /\ dirs = {<<>>, WORKSPACE.segs}
    /\ edits_json = None
    /\ mem_file = [kind |-> "missing", obj |-> EmptyDict]
    /\ node = "idle"
    /\ iter = 0
    /\ max_iters = 0
    /\ file_summaries = None
    /\ patches = None
    /\ tests_passed = None
    /\ test_passed = None
    /\ error_flag = None
    /\ message = None
    /\ exit_code = None
    /\ last_node = "none"
    /\ hist = NoHistory
    /\ GateIdle

\* mem = reflect_update(state["memory"], state["test_log"]); state["memory"] = mem
ReflectCall ==
    /\ refl_phase \in {"ready", "once"}
    /\ memory' = Some(reflect_update(memory[1], test_log[1]))
    /\ refl_phase' = IF refl_phase = "ready" THEN "once" ELSE "twice"
    /\ refl_once' = IF refl_phase = "ready" THEN memory'[1] ELSE refl_once
    /\ UNCHANGED <<refl_before, disk_vars, iter, max_iters, file_summaries, patches, tests_passed,
                   test_passed, test_log, error_flag, message, ctl_vars, gate_vars>>

NextReflect == ReflectCall

SpecReflect == InitReflect /\ [][NextReflect]_vars

---------------------------------------------------------------------------
\* Properties of the reflection engine (checked under SpecReflect)

\* the (tag, pattern, advice) triple of a rule
Triple(item) == <<Get(item.tag, ""), Get(item.pattern, <<>>), Get(item.advice, <<>>)>>

\* the positions of seq whose triple no earlier position has
FirstSeen(seq) == {i \in 1..Len(seq) : \A j \in 1..(i - 1) : Triple(seq[j]) # Triple(seq[i])}

RECURSIVE Pick(_, _, _)
Pick(seq, keep, i) ==
    IF i > Len(seq) THEN <<>>
    ELSE (IF i \in keep THEN <<seq[i]>> ELSE <<>>) \o Pick(seq, keep, i + 1)

\* seq without the entries whose triple occurred earlier
KeepFirst(seq) == Pick(seq, FirstSeen(seq), 1)

IsPrefix(p, q) == Len(p) <= Len(q) /\ SubSeq(q, 1, Len(p)) = p

\* the list existing ++ staged of the first call
Merged == Get(refl_before.heuristics, <<>>) \o new_rules(test_log[1])

\* C13: reflect_update drops an entry of existing ++ staged exactly when an
\* earlier entry has the same tag, pattern and advice; while under the cap
\* the result is the list of first occurrences of each triple.
C13_TripleDedupe ==
    refl_phase = "once" /\ Len(KeepFirst(Merged)) <= max_items
        => refl_once.heuristics = Some(KeepFirst(Merged))

\* C14: a second reflect_update with the same test log leaves the
\* heuristics list as the first one returned it.
C14_Idempotent == refl_phase = "twice" => memory[1].heuristics = refl_once.heuristics

\* the second call returned, after a first call that added three rules
C14_Witness ==
    /\ refl_phase = "twice"
    /\ test_log = Some(LogName)
    /\ Len(refl_once.heuristics[1]) = Len(Get(refl_before.heuristics, <<>>)) + 3

\* C15: after reflect_update the list has at most max_items entries; when
\* the existing rules are pairwise different and at most max_items, they are
\* a prefix of the result, and with max_items existing rules nothing is added.
C15_CapOldestKept ==
    refl_phase = "once" =>
        LET existing == Get(refl_before.heuristics, <<>>)
            out == refl_once.heuristics[1]
        IN  /\ Len(out) <= max_items
            /\ FirstSeen(existing) = 1..Len(existing) /\ Len(existing) <= max_items
                 => IsPrefix(existing, out) /\ (Len(existing) = max_items => out = existing)

\* the same for existing rules that differ in tag or advice, which is what
\* _dedupe compares
CapOnComparedKeys ==
    refl_phase = "once" =>
        LET existing == Get(refl_before.heuristics, <<>>)
            out == refl_once.heuristics[1]
        IN  /\ Len(out) <= max_items
            /\ dedupe(existing) = existing
                 => IsPrefix(existing, out) /\ (Len(existing) = max_items => out = existing)

\* the rules reflect_update stages when it walks the rows of _PATTERNS in the
\* given order; the name_error rule comes last in any case
RECURSIVE StagedInOrder(_, _, _)
StagedInOrder(log, order, k) ==
    IF k > Len(order) THEN IF log.name = None THEN <<>> ELSE <<NameRule(log.name[1])>>
    ELSE (IF order[k] \in log.hits THEN <<TableRule(order[k])>> ELSE <<>>)
         \o StagedInOrder(log, order, k + 1)

\* orders of the rows of _PATTERNS: reversed, first two swapped, rotated by one
TableOrders == { <<6, 5, 4, 3, 2, 1>>, <<2, 1, 3, 4, 5, 6>>, <<2, 3, 4, 5, 6, 1>> }

Range(seq) == {seq[k] : k \in 1..Len(seq)}

\* every row of _PATTERNS that matches the log is among the rules after reflect_update
MatchingRulesKept ==
    refl_phase = "once" =>
        \A i \in test_log[1].hits :
            \E k \in 1..Len(refl_once.heuristics[1]) :
                Triple(refl_once.heuristics[1][k]) = Triple(TableRule(i))

\* with the rows of _PATTERNS in another order reflect_update returns the same set of rules
SameSetInAnyOrder ==
    refl_phase = "once" =>
        \A order \in TableOrders :
            Range(dedupe(Get(refl_before.heuristics, <<>>) \o StagedInOrder(test_log[1], order, 1)))
                = Range(refl_once.heuristics[1])

\* C22: every row of _PATTERNS that matches the log is among the rules after
\* reflect_update, and the order of the rows does not change the set of
\* rules after reflect_update, also when the merge reaches max_items.
C22_TableOrderIrrelevant == MatchingRulesKept /\ SameSetInAnyOrder

====
